---- MODULE Spec2Model ----
(***************************************************************************)
(* Model of the Maestro servo-controller driver (src/driver.py).           *)
(*                                                                         *)
(* The driver is single-threaded: one Maestro object is live at a time,    *)
(* bound to one serial port.  The serial port is the environment: it is    *)
(* open or closed, it records what the driver writes, and it holds an      *)
(* input buffer rx of bytes the device has sent and the driver has not     *)
(* read yet; read(1) returns the next byte of rx, or nothing on a timeout. *)
(* Every method is one action; the polling loop of wait_until_at_target    *)
(* is one action per iteration, so the device can answer between polls.    *)
(***************************************************************************)
EXTENDS Integers, Sequences, FiniteSets, TLC

VARIABLES
    port,        \* "none": no Maestro object; "open" / "closed": its _commandPort
    writable,    \* what _commandPort.writable() answers
    pololu_cmd,  \* the class attribute Maestro.pololu_cmd (a mutable bytearray)
    rx,          \* the port's input buffer: bytes sent by the device, unread
    pc,          \* "idle", or "wait" inside the loop of wait_until_at_target
    op,          \* the last top-level call and its arguments
    writes,      \* the byte strings handed to _commandPort.write by that call, in order
    reads,       \* the results of its _commandPort.read(1) calls, in order
    ret          \* its return value (while pc = "wait": what it returns when the loop ends)

vars == <<port, writable, pololu_cmd, rx, pc, op, writes, reads, ret>>

----------------------------------------------------------------------------
(* Bounds of the model *)

\* moving-state queries over the life of the process (pololu_cmd never shrinks)
MaxQueries == 3
\* capacity of the input buffer
MaxRx == 2
\* largest value packed, and largest |percent| converted, by the codec on its own
MaxValue == 40000
MaxPercent == 250

(* Protocol constants *)
_DEVICE == 12                   \* 0x0c
_SET_TARGET_CMD == 132          \* 0x84 (not used by the driver)
_SET_SPEED_CMD == 135           \* 0x87
_SET_ACCELERATION_CMD == 137    \* 0x89
_SET_PWM_CMD == 138             \* 0x8A
_GET_POSITION_CMD == 144        \* 0x90
_GET_ERRORS_CMD == 161          \* 0xA1
_GO_HOME_CMD == 162             \* 0xA2
_INIT_CMD == 170                \* 0xAA
HOME_PULSE == 6000
MAX_FROM_HOME == 2000

\* Python's None as an argument (speed=None, channel3=None, ...)
None == -1

(* Inputs *)
Channels == {0, 5}
Targets == {0, 6000, 20000}
Speeds == {None, 0, 150}
Accelerations == {None, 0, 11}
Percents == {-100, 0, 50, 100, 201}
PwmValues == {0, 4080}
NumTargets == 1..5
\* (channel1, target1, ..., channel4, target4); the second leaves 3 and 4 at their defaults
MultiArgs == { <<0, 6000, 5, 0, 5, 20000, 0, 6000>>,
               <<5, 6000, 0, 6000, None, None, None, None>> }
\* bytes the device may send
RxBytes == {0, 5, 16}

----------------------------------------------------------------------------
(* Python values returned by the methods *)

True == [kind |-> "True", val |-> <<>>]
False == [kind |-> "False", val |-> <<>>]
RetNone == [kind |-> "None", val |-> <<>>]
RetInt(n) == [kind |-> "int", val |-> <<n>>]
Tuple(a, b) == [kind |-> "tuple", val |-> <<a, b>>]
Raise(e) == [kind |-> e, val |-> <<>>]

Exceptions == {"TypeError", "SerialException", "NotInitialized"}
Raised(r) == r.kind \in Exceptions

\* mutant: None counts as true, so a poll that read nothing keeps the loop going
Truthy_NoneMoving(r) ==
    r.kind \in {"True", "None"} \/ (r.kind = "int" /\ r.val[1] # 0)

\* mutant: every int counts as true, as in `while x is not None:`
Truthy_AnyInt(r) == r.kind \in {"True", "int"}

\* truth value of a Python object in `if x:` / `while x:`
Truthy(r) == r.kind = "True" \/ (r.kind = "int" /\ r.val[1] # 0)
\* truth value of an integer-or-None argument
TruthyArg(a) == a # None /\ a # 0

\* bytes(n) for an int n: n zero bytes
bytes(n) == [i \in 1..n |-> 0]

IntMsg(n) == [type |-> "int", v |-> n]
ByteArray(s) == [type |-> "bytearray", v |-> s]

----------------------------------------------------------------------------
(* Codec *)

\* mutant: the mask of a whole byte, 0xFF
low_bits_byte(value) == value % 256

\* value & 0x7F
low_bits(value) == value % 128

\* mutant: the shift of a whole byte, >> 8
high_bits_shift8(value) == (value \div 256) % 128

\* mutant: the mask forgotten, value >> 7
high_bits_nomask(value) == value \div 128

\* (value >> 7) & 0x7F
high_bits(value) == (value \div 128) % 128

\* |percent| for which the double (percent / 100.0) * 2000 falls just below
\* the integer 20 * |percent|, so that int() truncates one short (|percent| <= 1000)
FloatShort == {201, 203, 402, 406, 803, 804, 811, 812, 819}

\* int((percent / 100.0) * MAX_FROM_HOME): truncation toward zero
shift(percent) ==
    LET a == IF percent < 0 THEN 0 - percent ELSE percent
        q == (a * MAX_FROM_HOME) \div 100
        t == IF a \in FloatShort THEN q - 1 ELSE q
    IN  IF percent < 0 THEN 0 - t ELSE t

percent2command(percent) == HOME_PULSE + shift(percent)

----------------------------------------------------------------------------
(* The methods, as functions on a context c: the writes and reads made so  *)
(* far by the running call, the input buffer, pololu_cmd, the value r      *)
(* returned by the method just called and the bytes data of the last read  *)

Ctx == [writes |-> <<>>, reads |-> <<>>, rx |-> rx, cmd |-> pololu_cmd,
        r |-> RetNone, data |-> <<>>]

isOpen == port = "open"

\* self._commandPort.write(b)
port_write(c, b) == [c EXCEPT !.writes = Append(@, b)]

\* self._commandPort.read(1): raises on a port that is not open, else the
\* next byte of the input buffer, or nothing when the timeout passes
port_read(c) ==
    IF ~isOpen
    THEN [c EXCEPT !.reads = Append(@, <<>>), !.data = <<>>,
                   !.r = Raise("SerialException")]
    ELSE IF c.rx = <<>>
    THEN [c EXCEPT !.reads = Append(@, <<>>), !.data = <<>>, !.r = RetNone]
    ELSE [c EXCEPT !.reads = Append(@, <<Head(c.rx)>>), !.data = <<Head(c.rx)>>,
                   !.rx = Tail(@), !.r = RetNone]

write(c, message) ==
    IF ~isOpen \/ ~writable
    THEN [c EXCEPT !.r = False]
    ELSE IF message.type = "int"
    THEN [port_write(c, bytes(message.v)) EXCEPT !.r = True]
    ELSE [port_write(c, message.v) EXCEPT !.r = True]

set_speed(c, channel, speed) ==
    write(c, ByteArray(<<_SET_SPEED_CMD, channel, low_bits(speed), high_bits(speed)>>))

set_acceleration(c, channel, acceleration) ==
    write(c, ByteArray(<<_SET_ACCELERATION_CMD, channel,
                         low_bits(acceleration), high_bits(acceleration)>>))

\* mutant: the two data bytes of the set-target frame in the wrong order
set_target_swapped(c, channel, target, speed, acceleration) ==
    LET c1 == IF TruthyArg(speed) THEN set_speed(c, channel, speed) ELSE c
        c2 == IF TruthyArg(acceleration)
              THEN set_acceleration(c1, channel, acceleration) ELSE c1
    IN  IF channel = None \/ target = None
        THEN [c2 EXCEPT !.r = Raise("TypeError")]
        ELSE write(c2, ByteArray(<<170, _DEVICE, 4, channel,
                                   high_bits(target), low_bits(target)>>))

\* mutant: the acceleration limit is sent before the speed limit
set_target_accFirst(c, channel, target, speed, acceleration) ==
    LET c1 == IF TruthyArg(acceleration)
              THEN set_acceleration(c, channel, acceleration) ELSE c
        c2 == IF TruthyArg(speed) THEN set_speed(c1, channel, speed) ELSE c1
    IN  IF channel = None \/ target = None
        THEN [c2 EXCEPT !.r = Raise("TypeError")]
        ELSE write(c2, ByteArray(<<170, _DEVICE, 4, channel,
                                   low_bits(target), high_bits(target)>>))

\* mutant: the limits tested with `is not None`, so that a 0 is forwarded
set_target_notNone(c, channel, target, speed, acceleration) ==
    LET c1 == IF speed # None THEN set_speed(c, channel, speed) ELSE c
        c2 == IF acceleration # None
              THEN set_acceleration(c1, channel, acceleration) ELSE c1
    IN  IF channel = None \/ target = None
        THEN [c2 EXCEPT !.r = Raise("TypeError")]
        ELSE write(c2, ByteArray(<<170, _DEVICE, 4, channel,
                                   low_bits(target), high_bits(target)>>))

\* set_target up to and including `ret = self.write(outStr)`; the wait that
\* may follow is the loop of wait_until_at_target
set_target(c, channel, target, speed, acceleration) ==
    LET c1 == IF TruthyArg(speed) THEN set_speed(c, channel, speed) ELSE c
        c2 == IF TruthyArg(acceleration)
              THEN set_acceleration(c1, channel, acceleration) ELSE c1
    IN  IF channel = None \/ target = None
        THEN [c2 EXCEPT !.r = Raise("TypeError")]
        ELSE write(c2, ByteArray(<<170, _DEVICE, 4, channel,
                                   low_bits(target), high_bits(target)>>))

set_target_percent(c, channel, percent) ==
    set_target(c, channel, percent2command(percent), None, None)

\* mutant: the pairs taken last first
RECURSIVE set_targets_reversed(_, _, _, _)
set_targets_reversed(c, a, i, n) ==
    IF i > n THEN c
    ELSE LET k == n + 1 - i
             d == set_target(c, a[2 * k - 1], a[2 * k], None, None)
         IN  IF Raised(d.r) THEN d ELSE set_targets_reversed(d, a, i + 1, n)

\* the calls of set_target made by set_multiple_targets, an exception ending them
RECURSIVE set_targets(_, _, _, _)
set_targets(c, a, i, n) ==
    IF i > n THEN c
    ELSE LET d == set_target(c, a[2 * i - 1], a[2 * i], None, None)
         IN  IF Raised(d.r) THEN d ELSE set_targets(d, a, i + 1, n)

\* mutant: the lower limit of the count off by one
set_multiple_targets_from1(c, num_targets, a) ==
    IF num_targets < 1 \/ num_targets > 4
    THEN [c EXCEPT !.r = False]
    ELSE LET d == set_targets(c, a, 1, num_targets)
         IN  IF Raised(d.r) THEN d ELSE [d EXCEPT !.r = True]

\* set_multiple_targets up to the wait
set_multiple_targets(c, num_targets, a) ==
    IF num_targets < 2 \/ num_targets > 4
    THEN [c EXCEPT !.r = False]
    ELSE LET d == set_targets(c, a, 1, num_targets)
         IN  IF Raised(d.r) THEN d ELSE [d EXCEPT !.r = True]

\* mutant: the period sent before the on time
set_PWM_periodFirst(c, onTime, period) ==
    write(c, ByteArray(<<_SET_PWM_CMD, low_bits(period), high_bits(period),
                         low_bits(onTime), high_bits(onTime)>>))

set_PWM(c, onTime, period) ==
    write(c, ByteArray(<<_SET_PWM_CMD, low_bits(onTime), high_bits(onTime),
                         low_bits(period), high_bits(period)>>))

\* two reads, each through ord(): ord(b'') raises TypeError
read_pair(c) ==
    LET r1 == port_read(c)
        r2 == port_read(r1)
    IN  IF Raised(r1.r) THEN r1
        ELSE IF r1.data = <<>> THEN [r1 EXCEPT !.r = Raise("TypeError")]
        ELSE IF Raised(r2.r) THEN r2
        ELSE IF r2.data = <<>> THEN [r2 EXCEPT !.r = Raise("TypeError")]
        ELSE [r2 EXCEPT !.r = Tuple(r1.data[1], r2.data[1])]

\* mutant: the high byte shifted by 7 bits, as for the packed values sent
get_position_shift7(c, channel) ==
    LET w == write(c, ByteArray(<<_GET_POSITION_CMD, channel>>))
        p == read_pair(w)
    IN  IF w.r = False THEN [w EXCEPT !.r = RetInt(-1)]
        ELSE IF Raised(p.r) THEN p
        ELSE [p EXCEPT !.r = RetInt(p.r.val[1] + p.r.val[2] * 128)]

get_position(c, channel) ==
    LET w == write(c, ByteArray(<<_GET_POSITION_CMD, channel>>))
        p == read_pair(w)
    IN  IF w.r = False THEN [w EXCEPT !.r = RetInt(-1)]
        ELSE IF Raised(p.r) THEN p
        ELSE [p EXCEPT !.r = RetInt(p.r.val[1] + p.r.val[2] * 256)]

get_moving_state(c) ==
    LET c1 == [c EXCEPT !.cmd = Append(@, 19)]
        c2 == write(c1, ByteArray(c1.cmd))
        c3 == port_read(c2)
    IN  IF Raised(c3.r) THEN c3
        ELSE IF c3.data # <<>> THEN [c3 EXCEPT !.r = RetInt(c3.data[1])]
        ELSE [c3 EXCEPT !.r = RetNone]

go_home(c) == write(c, IntMsg(_GO_HOME_CMD))

get_errors(c) ==
    LET w == write(c, IntMsg(_GET_ERRORS_CMD))
    IN  IF w.r = False THEN [w EXCEPT !.r = False]
        ELSE read_pair(w)

----------------------------------------------------------------------------
(* Actions *)

Queries == Len(pololu_cmd) - 2

\* a call may enter the wait loop only if the queries it can need are left
MayWait == Queries + Len(rx) + 1 <= MaxQueries

Live == pc = "idle" /\ port \in {"open", "closed"}

\* the call returns, or raises, with context c
Return(c) ==
    /\ writes' = c.writes
    /\ reads' = c.reads
    /\ rx' = c.rx
    /\ pololu_cmd' = c.cmd
    /\ ret' = c.r
    /\ pc' = "idle"
    /\ UNCHANGED <<port, writable>>

\* the call goes on to wait_until_at_target unless it has raised
ReturnOrWait(c, wait) ==
    /\ writes' = c.writes
    /\ reads' = c.reads
    /\ rx' = c.rx
    /\ pololu_cmd' = c.cmd
    /\ ret' = c.r
    /\ pc' = IF wait /\ ~Raised(c.r) THEN "wait" ELSE "idle"
    /\ UNCHANGED <<port, writable>>

\* Maestro(port): opens(ed) and canWrite are the transport's answers
Maestro_init(opened, canWrite) ==
    /\ pc = "idle"
    /\ port \in {"none", "closed"}
    /\ op' = [name |-> "__init__"]
    /\ reads' = <<>>
    /\ pc' = "idle"
    /\ UNCHANGED pololu_cmd
    /\ IF opened /\ canWrite
       THEN /\ port' = "open"
            /\ writable' = TRUE
            /\ rx' = <<>>
            /\ writes' = <<bytes(_INIT_CMD)>>
            /\ ret' = RetNone
       ELSE /\ writes' = <<>>
            /\ ret' = Raise("NotInitialized")
            /\ UNCHANGED <<port, writable, rx>>

\* close() and __del__: the same test and close; __del__ ends the object
close ==
    /\ Live
    /\ op' = [name |-> "close"]
    /\ port' = "closed"
    /\ rx' = <<>>
    /\ writes' = <<>>
    /\ reads' = <<>>
    /\ ret' = RetNone
    /\ UNCHANGED <<writable, pololu_cmd, pc>>

Maestro_del ==
    /\ Live
    /\ op' = [name |-> "__del__"]
    /\ port' = "none"
    /\ rx' = <<>>
    /\ writes' = <<>>
    /\ reads' = <<>>
    /\ ret' = RetNone
    /\ UNCHANGED <<writable, pololu_cmd, pc>>

is_open ==
    /\ Live
    /\ op' = [name |-> "is_open"]
    /\ Return([Ctx EXCEPT !.r = IF isOpen /\ writable THEN True ELSE False])

Do_set_target(channel, target, speed, acceleration, wait) ==
    /\ Live
    /\ wait => MayWait
    /\ op' = [name |-> "set_target", channel |-> channel, target |-> target,
              speed |-> speed, acceleration |-> acceleration, wait |-> wait]
    /\ ReturnOrWait(set_target(Ctx, channel, target, speed, acceleration), wait)

Do_set_target_percent(channel, percent) ==
    /\ Live
    /\ op' = [name |-> "set_target_percent", channel |-> channel, percent |-> percent]
    /\ Return(set_target_percent(Ctx, channel, percent))

Do_set_multiple_targets(num_targets, a, wait) ==
    /\ Live
    /\ wait => MayWait
    /\ op' = [name |-> "set_multiple_targets", num_targets |-> num_targets,
              a |-> a, wait |-> wait]
    /\ ReturnOrWait(set_multiple_targets(Ctx, num_targets, a),
                    wait /\ num_targets >= 2 /\ num_targets <= 4)

Do_set_speed(channel, speed) ==
    /\ Live
    /\ op' = [name |-> "set_speed", channel |-> channel, speed |-> speed]
    /\ Return(set_speed(Ctx, channel, speed))

Do_set_acceleration(channel, acceleration) ==
    /\ Live
    /\ op' = [name |-> "set_acceleration", channel |-> channel,
              acceleration |-> acceleration]
    /\ Return(set_acceleration(Ctx, channel, acceleration))

Do_set_PWM(onTime, period) ==
    /\ Live
    /\ op' = [name |-> "set_PWM", onTime |-> onTime, period |-> period]
    /\ Return(set_PWM(Ctx, onTime, period))

Do_get_position(channel) ==
    /\ Live
    /\ op' = [name |-> "get_position", channel |-> channel]
    /\ Return(get_position(Ctx, channel))

Do_get_moving_state ==
    /\ Live
    /\ Queries < MaxQueries
    /\ op' = [name |-> "get_moving_state"]
    /\ Return(get_moving_state(Ctx))

Do_go_home ==
    /\ Live
    /\ op' = [name |-> "go_home"]
    /\ Return(go_home(Ctx))

Do_get_errors ==
    /\ Live
    /\ op' = [name |-> "get_errors"]
    /\ Return(get_errors(Ctx))

\* a direct call of wait_until_at_target: it returns None
wait_until_at_target ==
    /\ Live
    /\ MayWait
    /\ op' = [name |-> "wait_until_at_target"]
    /\ ReturnOrWait(Ctx, TRUE)

\* one evaluation of `while self.get_moving_state():` (and the sleep after it)
WaitPoll ==
    /\ pc = "wait"
    /\ LET c == get_moving_state([Ctx EXCEPT !.writes = writes, !.reads = reads])
       IN  /\ writes' = c.writes
           /\ reads' = c.reads
           /\ rx' = c.rx
           /\ pololu_cmd' = c.cmd
           /\ ret' = IF Raised(c.r) THEN c.r ELSE ret
           /\ pc' = IF ~Raised(c.r) /\ Truthy(c.r) THEN "wait" ELSE "idle"
    /\ UNCHANGED <<port, writable, op>>

\* the device sends a byte
Deliver(b) ==
    /\ port = "open"
    /\ Len(rx) < MaxRx
    /\ pc = "wait" => Queries + Len(rx) + 2 <= MaxQueries
    /\ rx' = Append(rx, b)
    /\ UNCHANGED <<port, writable, pololu_cmd, pc, op, writes, reads, ret>>

Init ==
    /\ port = "none"
    /\ writable = FALSE
    /\ pololu_cmd = <<170, _DEVICE>>
    /\ rx = <<>>
    /\ pc = "idle"
    /\ op = [name |-> "none"]
    /\ writes = <<>>
    /\ reads = <<>>
    /\ ret = RetNone

Next ==
    \/ \E opened \in BOOLEAN, canWrite \in BOOLEAN : Maestro_init(opened, canWrite)
    \/ close
    \/ Maestro_del
    \/ is_open
    \/ \E channel \in Channels, target \in Targets, speed \in Speeds,
          acceleration \in Accelerations, wait \in BOOLEAN :
            Do_set_target(channel, target, speed, acceleration, wait)
    \/ \E channel \in Channels, percent \in Percents :
            Do_set_target_percent(channel, percent)
    \/ \E num_targets \in NumTargets, a \in MultiArgs, wait \in BOOLEAN :
            Do_set_multiple_targets(num_targets, a, wait)
    \/ \E channel \in Channels, speed \in Speeds \ {None} : Do_set_speed(channel, speed)
    \/ \E channel \in Channels, acceleration \in Accelerations \ {None} :
            Do_set_acceleration(channel, acceleration)
    \/ \E onTime \in PwmValues, period \in PwmValues : Do_set_PWM(onTime, period)
    \/ \E channel \in Channels : Do_get_position(channel)
    \/ Do_get_moving_state
    \/ Do_go_home
    \/ Do_get_errors
    \/ wait_until_at_target
    \/ WaitPoll
    \/ \E b \in RxBytes : Deliver(b)

Spec == Init /\ [][Next]_vars

\* the running thread keeps executing its loop
LiveSpec == Spec /\ WF_vars(WaitPoll)

----------------------------------------------------------------------------
(* The codec on its own: the argument is drawn at the start and one step   *)
(* applies the function to it; no port is involved                         *)

CodecInputs ==
    {[name |-> "low_high_bits", value |-> v] : v \in 0..MaxValue}
        \cup {[name |-> "percent2command", percent |-> p] :
                  p \in (0 - MaxPercent)..MaxPercent}

CodecInit ==
    /\ port = "none"
    /\ writable = FALSE
    /\ pololu_cmd = <<170, _DEVICE>>
    /\ rx = <<>>
    /\ pc = "idle"
    /\ op \in CodecInputs
    /\ writes = <<>>
    /\ reads = <<>>
    /\ ret = RetNone

\* the pair (low_bits(value), high_bits(value)), as the frames carry it
Do_low_high_bits ==
    /\ op.name = "low_high_bits"
    /\ ret = RetNone
    /\ ret' = Tuple(low_bits(op.value), high_bits(op.value))
    /\ UNCHANGED <<port, writable, pololu_cmd, rx, pc, op, writes, reads>>

Do_percent2command ==
    /\ op.name = "percent2command"
    /\ ret = RetNone
    /\ ret' = RetInt(percent2command(op.percent))
    /\ UNCHANGED <<port, writable, pololu_cmd, rx, pc, op, writes, reads>>

CodecNext == Do_low_high_bits \/ Do_percent2command

CodecSpec == CodecInit /\ [][CodecNext]_vars

----------------------------------------------------------------------------
(* Properties *)

\* the step is one poll of the wait loop
Polled == pc = "wait" /\ Len(reads') = Len(reads) + 1

\* what the last read(1) delivered: <<b>>, or <<>> for nothing
LastRead == reads[Len(reads)]

\* the calls that enter the wait loop
Waiters == {"wait_until_at_target", "set_target", "set_multiple_targets"}

\* C1, as stated: on an open connection a poll ends the wait exactly when it
\* read the byte 0; a poll that read nothing (None) is followed by another poll.
C1_NoneKeepsWaiting ==
    [][(Polled /\ port = "open") => (pc' = "idle" <=> LastRead' = <<0>>)]_vars

\* C1, amended: on an open connection the wait goes on to another poll exactly
\* when the poll read a nonzero byte; a poll that read the byte 0 or read
\* nothing (None) ends the wait, and the call returns without raising.
C1_NoneEndsWait ==
    [][(Polled /\ port = "open") =>
          /\ pc' = "wait" <=> (LastRead' # <<>> /\ LastRead'[1] # 0)
          /\ ret' = ret]_vars

\* a wait that polled a nonzero byte and then returned on a poll that read nothing
C1_Witness ==
    /\ op.name = "wait_until_at_target"
    /\ port = "open"
    /\ pc = "idle"
    /\ Len(reads) = 2
    /\ reads[1] = <<5>>
    /\ reads[2] = <<>>
    /\ ret = RetNone

HasZero(s) == \E k \in 1..Len(s) : s[k] = 0

\* C2: a poll that read the byte 0 ends the wait at once (no further query),
\* and a wait whose pending answers hold a 0 (after a run of nonzero bytes)
\* returns, its last poll being the one that read the 0.
C2_ReturnsOnZero ==
    /\ [][(Polled /\ port = "open" /\ LastRead' = <<0>>) =>
              (pc' = "idle" /\ ret' = ret)]_vars
    /\ (pc = "wait" /\ port = "open" /\ HasZero(rx))
          ~> (pc = "idle" /\ reads # <<>> /\ LastRead = <<0>>)

\* a wait that returned on the byte 0 after a poll that read a nonzero byte
C2_Witness ==
    /\ op.name = "wait_until_at_target"
    /\ port = "open"
    /\ pc = "idle"
    /\ reads = << <<16>>, <<0>> >>
    /\ Len(writes) = 2

\* C3: every get_moving_state call writes exactly the frame 0xAA, 0x0C, 0x13,
\* however many queries came before: as a direct call and as a poll of a wait.
C3_FixedQueryFrame ==
    /\ (op.name = "get_moving_state" /\ port = "open") => writes = << <<170, 12, 19>> >>
    /\ (op.name = "wait_until_at_target" /\ port = "open") =>
          \A i \in 1..Len(writes) : writes[i] = <<170, 12, 19>>

\* position of the set-target write among the writes of a set_target call
SetTargetAt ==
    1 + (IF TruthyArg(op.speed) THEN 1 ELSE 0)
      + (IF TruthyArg(op.acceleration) THEN 1 ELSE 0)

\* C4, as stated: the set-target write of set_target on an open connection is
\* the four bytes 0x84, channel, low_bits(target), high_bits(target).
C4_CompactFrame ==
    (op.name = "set_target" /\ port = "open") =>
        /\ Len(writes) >= SetTargetAt
        /\ writes[SetTargetAt] =
              <<_SET_TARGET_CMD, op.channel, low_bits(op.target), high_bits(op.target)>>

\* C4, amended: the set-target write of set_target on an open connection is
\* the six bytes 0xAA, 0x0C, 0x04, channel, low_bits(target), high_bits(target).
C4_PololuFrame ==
    (op.name = "set_target" /\ port = "open") =>
        /\ Len(writes) >= SetTargetAt
        /\ writes[SetTargetAt] =
              <<170, 12, 4, op.channel, low_bits(op.target), high_bits(op.target)>>

\* set_target(5, 6000) on an open connection: 6000 = 46 * 128 + 112
C4_Witness ==
    /\ op.name = "set_target"
    /\ port = "open"
    /\ op.channel = 5
    /\ op.target = 6000
    /\ writes = << <<170, 12, 4, 5, 112, 46>> >>

\* get_position got both of its response bytes
GotPair == op.name = "get_position" /\ Len(reads) = 2 /\ reads[1] # <<>> /\ reads[2] # <<>>

\* C5, as stated: get_position returns lo + (hi << 7) for the response bytes lo, hi.
C5_Shift7 == GotPair => ret = RetInt(reads[1][1] + reads[2][1] * 128)

\* C5, amended: get_position returns lo + (hi << 8) for the response bytes
\* lo, hi; the bytes 0x05, 0x10 give 4101.
C5_Shift8 == GotPair => ret = RetInt(reads[1][1] + reads[2][1] * 256)

\* get_position read 0x05 then 0x10
C5_Witness ==
    /\ op.name = "get_position"
    /\ reads = << <<5>>, <<16>> >>
    /\ writes = << <<144, op.channel>> >>
    /\ ret = RetInt(4101)

\* the calls that answer with bytes read from the device, and how many each reads
ReadCommands == {"get_position", "get_errors", "get_moving_state"}
ResponseBytes(name) == IF name = "get_moving_state" THEN 1 ELSE 2

\* the calls that write to the device
WriteOps ==
    {"set_target", "set_target_percent", "set_multiple_targets", "set_speed",
     "set_acceleration", "set_PWM", "get_position", "get_moving_state",
     "get_errors", "go_home", "wait_until_at_target"}

\* what a call returns to say that it failed
FailureOf(name) ==
    IF name \in {"get_moving_state", "wait_until_at_target"}
    THEN {False, RetInt(-1), RetNone}
    ELSE {False, RetInt(-1)}

\* C6: when write returns failure (here: the port is closed), every call that
\* depends on a write has returned a failure indication and has made no read.
C6_FailedWriteNoRead ==
    (pc = "idle" /\ port = "closed" /\ op.name \in WriteOps) =>
        /\ reads = <<>>
        /\ ret \in FailureOf(op.name)

\* C7: a read command that wrote its frame has made its matching number of
\* reads (2, 2, 1) before it ends, also when a read timed out.
C7_MatchingReads ==
    (pc = "idle" /\ port = "open" /\ op.name \in ReadCommands) =>
        /\ Len(writes) = 1
        /\ Len(reads) = ResponseBytes(op.name)

\* C8: a read command whose read timed out returns a value: get_position -1,
\* get_errors False, get_moving_state None; and it wrote its frame once and
\* read no more often than it has response bytes.
C8_TimeoutIsValue ==
    (pc = "idle" /\ port = "open" /\ op.name \in ReadCommands
        /\ \E i \in 1..Len(reads) : reads[i] = <<>>) =>
        /\ ret = CASE op.name = "get_position" -> RetInt(-1)
                   [] op.name = "get_errors" -> False
                   [] OTHER -> RetNone
        /\ Len(writes) = 1
        /\ Len(reads) <= ResponseBytes(op.name)

\* C9: on a closed connection every operation fails (False, -1 or the
\* not-initialized condition) and makes no transport write and no read.
C9_ClosedFails ==
    (port = "closed" /\ op.name \in WriteOps \ {"wait_until_at_target"}) =>
        /\ writes = <<>>
        /\ reads = <<>>
        /\ ret \in {False, RetInt(-1), Raise("NotInitialized")}

\* C10: a successful construction writes the one byte 0xAA and nothing else, a
\* failed one writes nothing, and no other call writes the init byte.
C10_InitByte ==
    /\ (op.name = "__init__" /\ ~Raised(ret)) => writes = << <<_INIT_CMD>> >>
    /\ (op.name = "__init__" /\ Raised(ret)) => writes = <<>>
    /\ op.name # "__init__" => \A i \in 1..Len(writes) : writes[i] # <<_INIT_CMD>>

\* C11: the single-opcode commands put one byte on the wire: go_home writes
\* the byte 0xA2; get_errors writes the byte 0xA1 and returns the two bytes
\* it then reads, unmodified, as (low, high).
C11_SingleOpcodeByte ==
    /\ (op.name = "go_home" /\ port = "open") =>
          (writes = << <<_GO_HOME_CMD>> >> /\ reads = <<>> /\ ret = True)
    /\ (op.name = "get_errors" /\ port = "open") => writes = << <<_GET_ERRORS_CMD>> >>
    /\ (op.name = "get_errors" /\ port = "open" /\ Len(reads) = 2
            /\ reads[1] # <<>> /\ reads[2] # <<>>) =>
          ret = Tuple(reads[1][1], reads[2][1])

\* the frames of a set_target call
SpeedFrame == <<135, op.channel, low_bits(op.speed), high_bits(op.speed)>>
AccelerationFrame ==
    <<137, op.channel, low_bits(op.acceleration), high_bits(op.acceleration)>>
TargetFrame == <<170, 12, 4, op.channel, low_bits(op.target), high_bits(op.target)>>

\* a moving-state query: 0xAA, 0x0C, 0x13, ...
IsQuery(f) == Len(f) >= 3 /\ f[1] = 170 /\ f[2] = 12 /\ f[3] = 19

\* every write after the first k is a moving-state query, and there is none
\* unless the call waits
OnlyQueriesAfter(k) ==
    /\ Len(writes) >= k
    /\ \A i \in (k + 1)..Len(writes) : IsQuery(writes[i])
    /\ ~op.wait => Len(writes) = k

\* C12: on an open connection set_target with a nonzero speed and no
\* acceleration writes the set-speed frame, then the set-target frame, and
\* nothing else (but the queries of its wait, if it waits); with a nonzero
\* acceleration as well it writes set-speed, set-acceleration, set-target.
C12_SpeedThenTarget ==
    (op.name = "set_target" /\ port = "open" /\ TruthyArg(op.speed)) =>
        IF TruthyArg(op.acceleration)
        THEN /\ OnlyQueriesAfter(3)
             /\ SubSeq(writes, 1, 3) = <<SpeedFrame, AccelerationFrame, TargetFrame>>
        ELSE /\ OnlyQueriesAfter(2)
             /\ SubSeq(writes, 1, 2) = <<SpeedFrame, TargetFrame>>

\* set_target(5, 6000, speed=150): 150 = 1 * 128 + 22
C12_Witness ==
    /\ op.name = "set_target"
    /\ port = "open"
    /\ op.speed = 150
    /\ op.acceleration = None
    /\ ~op.wait
    /\ writes = << <<135, 5, 22, 1>>, <<170, 12, 4, 5, 112, 46>> >>

\* C13: set_multiple_targets with a count below 2 or above 4 writes nothing,
\* reads nothing, does not wait even if wait is set, and returns False.
C13_BadCountNoWrite ==
    (op.name = "set_multiple_targets" /\ (op.num_targets < 2 \/ op.num_targets > 4)) =>
        /\ writes = <<>>
        /\ reads = <<>>
        /\ pc = "idle"
        /\ ret = False

\* set_multiple_targets(5, ..., wait=True) on an open connection
C13_Witness ==
    /\ op.name = "set_multiple_targets"
    /\ port = "open"
    /\ op.num_targets = 5
    /\ op.wait
    /\ pc = "idle"
    /\ writes = <<>>
    /\ ret = False

\* the set-target frames among the writes of the call
TargetWrites == SelectSeq(writes, LAMBDA f : ~IsQuery(f))

\* C14: set_multiple_targets with a count in 2..4 returns True or False, and
\* True exactly when every one of its set-target writes was made.
C14_TrueIffAllWritten ==
    (op.name = "set_multiple_targets" /\ op.num_targets \in 2..4 /\ ~Raised(ret)) =>
        /\ ret \in {True, False}
        /\ ret = True <=> Len(TargetWrites) = op.num_targets

\* a | b and a & b on non-negative integers, bit by bit
RECURSIVE BitOr(_, _)
BitOr(a, b) ==
    IF a = 0 THEN b
    ELSE IF b = 0 THEN a
    ELSE (IF a % 2 = 1 \/ b % 2 = 1 THEN 1 ELSE 0) + 2 * BitOr(a \div 2, b \div 2)

RECURSIVE BitAnd(_, _)
BitAnd(a, b) ==
    IF a = 0 \/ b = 0 THEN 0
    ELSE (IF a % 2 = 1 /\ b % 2 = 1 THEN 1 ELSE 0) + 2 * BitAnd(a \div 2, b \div 2)

\* a << n
ShiftLeft(a, n) == a * 2^n

\* the codec has packed op.value into ret = (low, high)
Packed == op.name = "low_high_bits" /\ ret # RetNone

\* C15: for every v in 0..16383, (high_bits(v) << 7) | low_bits(v) = v.
C15_RoundTrip ==
    (Packed /\ op.value <= 16383) =>
        BitOr(ShiftLeft(ret.val[2], 7), ret.val[1]) = op.value

\* 16383 = 127 * 128 + 127 packed
C15_Witness == Packed /\ op.value = 16383 /\ ret = Tuple(127, 127)

\* C16: for every v above 16383 the packed pair is that of v & 0x3FFF.
C16_Truncates ==
    (Packed /\ op.value > 16383) =>
        ret = Tuple(low_bits(BitAnd(op.value, 16383)), high_bits(BitAnd(op.value, 16383)))

\* 20000 & 0x3FFF = 3616 = 28 * 128 + 32
C16_Witness == Packed /\ op.value = 20000 /\ ret = Tuple(32, 28)

\* C17: percent2command returns home + floor(percent * max_from_home / 100) for
\* every integer percent: 6000 for 0, 8000 for 100, 4000 for -100.
C17_Proportional ==
    (op.name = "percent2command" /\ ret # RetNone) =>
        /\ ret = RetInt(HOME_PULSE + (op.percent * MAX_FROM_HOME) \div 100)
        /\ op.percent = 0 => ret = RetInt(6000)
        /\ op.percent = 100 => ret = RetInt(8000)
        /\ op.percent = -100 => ret = RetInt(4000)

\* the first op.num_targets pairs of set_multiple_targets were supplied
PairsGiven == \A i \in 1..(2 * op.num_targets) : op.a[i] # None

\* the set-target frame of pair i
PairFrame(i) ==
    <<170, 12, 4, op.a[2 * i - 1], low_bits(op.a[2 * i]), high_bits(op.a[2 * i])>>

C19_OneFrameEach ==
    /\ op.name \in {"set_speed", "set_acceleration", "set_PWM"} =>
          /\ reads = <<>>
          /\ pc = "idle"
          /\ IF port = "open" THEN Len(writes) = 1 /\ ret = True
                              ELSE writes = <<>> /\ ret = False
    /\ (op.name = "set_speed" /\ port = "open") =>
          writes[1] = <<135, op.channel, low_bits(op.speed), high_bits(op.speed)>>
    /\ (op.name = "set_acceleration" /\ port = "open") =>
          writes[1] = <<137, op.channel, low_bits(op.acceleration),
                        high_bits(op.acceleration)>>
    /\ (op.name = "set_PWM" /\ port = "open") =>
          writes[1] = <<138, low_bits(op.onTime), high_bits(op.onTime),
                        low_bits(op.period), high_bits(op.period)>>

\* set_PWM(0, 4080) on an open connection: 4080 = 31 * 128 + 112
C19_Witness ==
    /\ op.name = "set_PWM"
    /\ port = "open"
    /\ op.onTime = 0
    /\ op.period = 4080
    /\ writes = << <<138, 0, 0, 112, 31>> >>
    /\ reads = <<>>
    /\ ret = True

\* the bytes of frame f that carry a packed value
PackedBytes(f) ==
    IF f[1] \in {135, 137} /\ Len(f) = 4 THEN {f[3], f[4]}
    ELSE IF f[1] = 138 /\ Len(f) = 5 THEN {f[2], f[3], f[4], f[5]}
    ELSE IF f[1] = 170 /\ Len(f) = 6 /\ f[3] = 4 THEN {f[5], f[6]}
    ELSE {}

\* C20: in every frame written by set_target, set_speed, set_acceleration and
\* set_PWM, each byte that carries a packed value is in 0..127, and every
\* frame they write other than a moving-state query carries such bytes.
C20_HighBitClear ==
    op.name \in {"set_target", "set_speed", "set_acceleration", "set_PWM"} =>
        \A i \in 1..Len(writes) :
            /\ \A b \in PackedBytes(writes[i]) : b \in 0..127
            /\ ~IsQuery(writes[i]) => PackedBytes(writes[i]) # {}

\* set_target(0, 20000, speed=150): a target above 14 bits and a speed above 7
C20_Witness ==
    /\ op.name = "set_target"
    /\ port = "open"
    /\ op.target = 20000
    /\ op.speed = 150
    /\ writes = << <<135, 0, 22, 1>>, <<170, 12, 4, 0, 32, 28>> >>

\* the set-speed and the set-acceleration frames among the writes of the call
SpeedWrites == SelectSeq(writes, LAMBDA f : f[1] = 135)
AccelerationWrites == SelectSeq(writes, LAMBDA f : f[1] = 137)

\* C21: set_target writes a set-speed frame exactly when its speed argument is
\* neither None nor 0, and a set-acceleration frame exactly when its
\* acceleration argument is neither None nor 0 (on a closed connection it
\* writes neither); the frame carries the argument, so a 0 is never forwarded,
\* and a call on an open connection with both limits None or 0 writes the
\* set-target frame alone before the queries of its wait.
C21_LimitFrameIffNonzero ==
    op.name = "set_target" =>
        /\ SpeedWrites # <<>> => TruthyArg(op.speed)
        /\ AccelerationWrites # <<>> => TruthyArg(op.acceleration)
        /\ port = "open" =>
              /\ SpeedWrites = IF TruthyArg(op.speed) THEN <<SpeedFrame>> ELSE <<>>
              /\ AccelerationWrites =
                    IF TruthyArg(op.acceleration) THEN <<AccelerationFrame>> ELSE <<>>
              /\ (~TruthyArg(op.speed) /\ ~TruthyArg(op.acceleration)) =>
                    /\ OnlyQueriesAfter(1)
                    /\ writes[1] = TargetFrame

\* set_target(5, 6000, speed=0, acceleration=0): the set-target frame only
C21_Witness ==
    /\ op.name = "set_target"
    /\ port = "open"
    /\ op.speed = 0
    /\ op.acceleration = 0
    /\ ~op.wait
    /\ writes = << <<170, 12, 4, 5, 112, 46>> >>
    /\ ret = True

====
